---- MODULE Spec2Model ----
(***************************************************************************)
(* The four data collectors of scripts/data: gather_cog_emails.py (Mail),  *)
(* gather_gdocs.py (Documents), gather_jira.py (IssueTracker) and          *)
(* gather_slack_bot.py (Chat).  One behaviour is one run of one script:    *)
(* the script, its arguments and its credential are fixed in Init, the     *)
(* answers of the upstream service are chosen when the call is made.       *)
(*                                                                         *)
(* Spec          the run with a working log sink: log() returns.           *)
(* SpecLogFault  the same run where mkdir/log() may raise at any call.     *)
(***************************************************************************)
EXTENDS Integers, Sequences, FiniteSets, TLC

\* ------------------------------------------------------------------ bounds
MaxItems == 2       \* items the upstream service returns to one run (mails, docs, issues;
                    \* for slack the messages of all channels together)
MaxChannels == 2    \* channel ids on the Chat command line
MaxClock == 2       \* instants at which a run can be started: 1..MaxClock, two a day

\* ---------------------------------------------------------------- state
VARIABLES
  script,        \* which script runs: its "source" tag
  cred,          \* the credential environment variable: see CredKinds
  channel_ids,   \* slack argv[1], already split at ',' (sequence of channel ids)
  github_users,  \* slack argv[2], already split at ',' (sequence of raw entries)
  date_args,     \* cog_emails, gdocs, jira: the date arguments given, argv[1:3]
  now,           \* the clock reading of the run: datetime.now() / datetime.utcnow()
  pc,            \* position of main()
  items,         \* messages / docs / issues returned by the listing call
  i,             \* loop index into items
  text_parts,    \* emails_text_parts / docs_text_parts / issues_text_parts / all_messages
  item_count,    \* email_count / doc_count / issue_count
  ch,            \* slack: index of the channel being processed
  channel_name,  \* slack: name used in the blocks of the current channel
  eligible,      \* slack: how many fetched messages are no bot/system message and
                 \* have an author whose profile resolves (history variable)
  fetched,       \* slack: how many messages the history calls have returned (history variable)
  failed_channels, \* slack: how many channels ended in "except SlackApiError" (history variable)
  other_fault,   \* slack: a history call raised something that is no SlackApiError, or returned
                 \* a message whose lookup or formatting raises one (history variable)
  calls,         \* TRUE once a call to the upstream service has been made
  output_file,   \* the records dumped to output_path, oldest first (each open(..,'w') truncates)
  exit_status    \* the process exit status, meaningful once pc = "exited"

vars == <<script, cred, channel_ids, github_users, date_args, now, pc, items, i, text_parts,
          item_count, ch, channel_name, eligible, fetched, failed_channels, other_fault,
          calls, output_file, exit_status>>

run_in == <<script, cred, channel_ids, github_users, date_args, now>>
loop_vars == <<items, i, text_parts, item_count>>
slack_vars == <<ch, channel_name, eligible, fetched, failed_channels, other_fault>>

Scripts == {"cog_emails", "gdocs", "jira", "slack"}

\* What the credential variable holds.
\*   absent       unset or empty ("not x" is true)
\*   garbled      a string that is not JSON
\*   wrong_shape  JSON, but not the object the credential class needs
\*   rejected     well formed, refused by the upstream service
\*   valid        accepted by the upstream service
CredKinds == {"absent", "garbled", "wrong_shape", "rejected", "valid"}

\* ------------------------------------------------------------ text model
\* raw_text is either a literal string or the '\n'.join of text blocks:
\* lit = "" and blocks = <<>> is the empty string.
Literal(s) == [lit |-> s, blocks |-> <<>>]

\* Mutant: the blocks are joined last first.
JoinBlocks_Reversed(parts) ==
  [lit |-> "", blocks |-> [k \in 1..Len(parts) |-> parts[Len(parts) + 1 - k]]]

JoinBlocks(parts) == [lit |-> "", blocks |-> parts]

IsEmptyText(t) == t.lit = "" /\ t.blocks = <<>>

\* Characters of names: lower and upper case of two letters.
Lower(c) == CASE c = "A" -> "a" [] c = "B" -> "b" [] OTHER -> c

LowerStr(s) == [k \in 1..Len(s) |-> Lower(s[k])]

\* Python's  a in b  on strings.
Contains(b, a) ==
  \E off \in 0..(Len(b) - Len(a)) : SubSeq(b, off + 1, off + Len(a)) = a

\* ------------------------------------------------------------ the records
\* A dumped JSON object: keys is the set of its keys, a field whose key is not in
\* keys is not in the object (error "none", numbers 0).
CountKey(s) ==
  CASE s = "cog_emails" -> "email_count"
    [] s = "gdocs"      -> "doc_count"
    [] s = "jira"       -> "issue_count"
    [] s = "slack"      -> "message_count"

\* Date values of a record: an argument as given, None, the day of an instant
\* (strftime('%Y-%m-%d'), two instants a day), an instant (isoformat()).
ArgDate(s) == [of |-> "argv", text |-> s, t |-> 0]

NoDate == [of |-> "None", text |-> "", t |-> 0]

DayDate(t) == [of |-> "day", text |-> "", t |-> t \div 2]

InstantDate(t) == [of |-> "instant", text |-> "", t |-> t]

\* timedelta(days=7), in instants
SevenDays == 7 * 2

NoRange == [start |-> NoDate, end |-> NoDate]

\* "date_range" of output_data for a run started at instant t
DateRange(s, args, t) ==
  CASE s \in {"cog_emails", "gdocs"} ->
         [start |-> IF Len(args) > 0 THEN ArgDate(args[1]) ELSE NoDate,
          end   |-> IF Len(args) > 1 THEN ArgDate(args[2]) ELSE NoDate]
    [] s = "jira" ->
         [start |-> IF Len(args) > 0 THEN ArgDate(args[1]) ELSE DayDate(t - SevenDays),
          end   |-> IF Len(args) > 1 THEN ArgDate(args[2]) ELSE DayDate(t)]
    [] s = "slack" ->
         [start |-> InstantDate(t - SevenDays), end |-> InstantDate(t)]

\* {"raw_text": ..., "source": ..., "error": ...} (+ "error_message")
ErrorRecord(raw, src, err, more) ==
  [raw_text |-> raw, source |-> src, error |-> err, count |-> 0, channel_count |-> 0,
   date_range |-> NoRange,
   keys |-> {"raw_text", "source", "error"} \cup more]

\* output_data of the success path
SuccessRecord(raw, src, cnt, more) ==
  [raw_text |-> raw, source |-> src, error |-> "none", count |-> cnt, channel_count |-> 0,
   date_range |-> DateRange(src, date_args, now),
   keys |-> {"raw_text", "source", CountKey(src), "date_range"} \cup more]

MissingText(s) ==
  CASE s = "cog_emails" -> "No CoG emails - missing credentials"
    [] s = "gdocs"      -> "No Google Docs data - missing credentials"
    [] s = "jira"       -> "No JIRA data - missing credentials"
    [] s = "slack"      -> "No Slack data - credentials not configured"

\* Mutant: the missing credential is fatal in every script.
MissingExit_AlwaysFatal(s) == 1

\* sys.exit(0) "Non-fatal" for slack, sys.exit(1) for the others
MissingExit(s) == IF s = "slack" THEN 0 ELSE 1

InvalidText(s) ==
  CASE s = "cog_emails" -> "No CoG emails - invalid credentials"
    [] s = "gdocs"      -> "No Google Docs data - invalid credentials"

ApiFailureText(s) ==
  CASE s = "cog_emails" -> "No CoG emails - API error"
    [] s = "gdocs"      -> "No Google Docs data - API error"
    [] s = "jira"       -> "No JIRA data - API error"
    [] s = "slack"      -> "No Slack data - API error"

\* json.dump to open(output_file, 'w')
Dump(rec) == output_file' = Append(output_file, rec)

\* sys.exit(code), or the end of main()
Exit(code) == pc' = "exited" /\ exit_status' = code

\* ------------------------------------------------------------ listings
Item(Kinds) == [id : 1..MaxItems, kind : Kinds]

\* What a listing call can return: at most MaxItems items with distinct ids, in any order.
Listings(Kinds) ==
  { s \in UNION { [1..n -> Item(Kinds)] : n \in 0..MaxItems } :
      \A a, b \in 1..Len(s) : a # b => s[a].id # s[b].id }

\* ---------------------------------------------------------------- Init
\* The channel argument after split(','): up to MaxChannels ids, and two arguments
\* with an entry that strips to nothing ("" alone is the default argument).
ChannelArgs ==
  UNION { [1..n -> {"C1", "C2"}] : n \in 0..MaxChannels } \cup { <<"">>, <<"", "C1">> }

\* The author filter argument after split(','); the entry <<>> strips to nothing
\* (alone it is the default argument).
FilterArgs == { << <<>> >>, << <<"A">> >>, << <<>>, <<"A">> >>, << <<"b", "b">>, <<"A">> >> }

\* The date arguments: none, the start date only, both.
DateArgs == { <<>>, <<"2024-01-01">>, <<"2024-01-01", "2024-01-07">> }

\* The instants at which the run can be started.
Clock == 1..MaxClock

Init ==
  /\ script \in Scripts
  /\ cred \in CredKinds
  /\ channel_ids \in (IF script = "slack" THEN ChannelArgs ELSE {<<>>})
  /\ github_users \in (IF script = "slack" THEN FilterArgs ELSE {<<>>})
  /\ date_args \in (IF script = "slack" THEN {<<>>} ELSE DateArgs)
  /\ now \in Clock
  /\ pc = "start"
  /\ items = <<>>
  /\ i = 1
  /\ text_parts = <<>>
  /\ item_count = 0
  /\ ch = 1
  /\ channel_name = ""
  /\ eligible = 0
  /\ fetched = 0
  /\ failed_channels = 0
  /\ other_fault = FALSE
  /\ calls = FALSE
  /\ output_file = <<>>
  /\ exit_status = 0

\* ------------------------------------------------------ shared prologue
\* mkdir(log_dir), the log file name, the opening log lines.
SetupLogging ==
  /\ pc = "start"
  /\ pc' = "getenv"
  /\ UNCHANGED <<run_in, loop_vars, slack_vars, calls, output_file, exit_status>>

\* The credential is absent: log, dump the placeholder record, exit.
MissingCredentials ==
  /\ pc = "getenv"
  /\ cred = "absent"
  /\ Dump(ErrorRecord(Literal(MissingText(script)), script, "missing_credentials", {}))
  /\ Exit(MissingExit(script))
  /\ UNCHANGED <<run_in, loop_vars, slack_vars, calls>>

\* except json.JSONDecodeError (cog_emails, gdocs)
ExceptJSONDecodeError ==
  /\ pc = "except_json"
  /\ Dump(ErrorRecord(Literal(InvalidText(script)), script, "invalid_credentials", {}))
  /\ Exit(1)
  /\ UNCHANGED <<run_in, loop_vars, slack_vars, calls>>

\* Where an exception that is not a SlackApiError / JSONDecodeError lands when it
\* is raised inside the outer try: "except Exception".
ExceptException(s) == IF s = "slack" THEN "except_unexpected" ELSE "except_api"

\* Mutant: the handler dumps the record and forgets sys.exit(1).
ExceptApiFailure_NoExit ==
  /\ pc = "except_api"
  /\ Dump(ErrorRecord(Literal(ApiFailureText(script)), script, "api_failure", {"error_message"}))
  /\ Exit(0)
  /\ UNCHANGED <<run_in, loop_vars, slack_vars, calls>>

\* except Exception (cog_emails, gdocs, jira), except SlackApiError (slack)
ExceptApiFailure ==
  /\ pc = "except_api"
  /\ Dump(ErrorRecord(Literal(ApiFailureText(script)), script, "api_failure", {"error_message"}))
  /\ Exit(1)
  /\ UNCHANGED <<run_in, loop_vars, slack_vars, calls>>

\* The log line after the dump of the success record, then the end of main().
LogSaved ==
  /\ pc = "saved"
  /\ Exit(0)
  /\ UNCHANGED <<run_in, loop_vars, slack_vars, calls, output_file>>

\* log("Found n ..."), then the accumulator is created and the loop starts.
LogFound ==
  /\ pc = "found"
  /\ script # "slack"
  /\ pc' = "loop"
  /\ i' = 1
  /\ text_parts' = <<>>
  /\ UNCHANGED <<run_in, items, item_count, slack_vars, calls, output_file, exit_status>>

\* ------------------------------------------------------------ cog_emails
\* get fails / the fetched message lacks payload or headers or does not decode /
\* the listed entry has no 'id'
MailKinds == {"ok", "get_error", "malformed", "no_id"}

\* json.loads(google_token_json), Credentials(...), build(...)
cog_ParseToken ==
  /\ script = "cog_emails"
  /\ pc = "getenv"
  /\ cred # "absent"
  /\ pc' = CASE cred = "garbled"     -> "except_json"
             [] cred = "wrong_shape" -> "except_api"
             [] OTHER                -> "query"
  /\ UNCHANGED <<run_in, loop_vars, slack_vars, calls, output_file, exit_status>>

\* log(query); messages().list(...).execute(); email_count = len(messages)
cog_List ==
  /\ script = "cog_emails"
  /\ pc = "query"
  /\ calls' = TRUE
  /\ \/ /\ cred = "rejected"
        /\ pc' = "except_api"
        /\ UNCHANGED <<items, item_count>>
     \/ /\ cred = "valid"
        /\ pc' = "except_api"
        /\ UNCHANGED <<items, item_count>>
     \/ /\ cred = "valid"
        /\ \E l \in Listings(MailKinds) :
             /\ items' = l
             /\ item_count' = Len(l)
        /\ pc' = "found"
  /\ UNCHANGED <<run_in, i, text_parts, slack_vars, output_file, exit_status>>

\* One pass of "for msg in messages": the try body.
cog_Message ==
  /\ script = "cog_emails"
  /\ pc = "loop"
  /\ i <= Len(items)
  /\ LET msg == items[i] IN
     \/ /\ msg.kind = "ok"
        /\ calls' = TRUE
        /\ text_parts' = Append(text_parts, [id |-> msg.id])
        /\ i' = i + 1
        /\ pc' = "loop"
     \/ /\ msg.kind \in {"get_error", "malformed"}
        /\ calls' = TRUE
        /\ pc' = "warn"
        /\ UNCHANGED <<text_parts, i>>
     \/ /\ msg.kind = "no_id"
        /\ pc' = "warn"
        /\ UNCHANGED <<text_parts, i, calls>>
  /\ UNCHANGED <<run_in, items, item_count, slack_vars, output_file, exit_status>>

\* except Exception inside the loop: log(f"... {msg['id']} ...")
cog_Warning ==
  /\ script = "cog_emails"
  /\ pc = "warn"
  /\ IF items[i].kind = "no_id"
       THEN pc' = "except_api" /\ i' = i
       ELSE pc' = "loop" /\ i' = i + 1
  /\ UNCHANGED <<run_in, items, text_parts, item_count, slack_vars, calls, output_file, exit_status>>

\* emails_text = '\n'.join(...); output_data; json.dump
cog_Write ==
  /\ script = "cog_emails"
  /\ pc = "loop"
  /\ i > Len(items)
  /\ Dump(SuccessRecord(JoinBlocks(text_parts), "cog_emails", item_count, {}))
  /\ pc' = "saved"
  /\ UNCHANGED <<run_in, loop_vars, slack_vars, calls, exit_status>>

\* ----------------------------------------------------------------- gdocs
\* content fetched / fetched but no text / documents().get fails / entry has no 'id'
DocKinds == {"ok", "empty", "get_error", "no_id"}

\* json.loads(gdocs_creds_json), from_service_account_info(...), build(...)
gdocs_ParseCredentials ==
  /\ script = "gdocs"
  /\ pc = "getenv"
  /\ cred # "absent"
  /\ pc' = CASE cred = "garbled"     -> "except_json"
             [] cred = "wrong_shape" -> "except_api"
             [] OTHER                -> "query"
  /\ UNCHANGED <<run_in, loop_vars, slack_vars, calls, output_file, exit_status>>

\* log(query); files().list(...).execute(); doc_count = len(docs)
gdocs_List ==
  /\ script = "gdocs"
  /\ pc = "query"
  /\ calls' = TRUE
  /\ \/ /\ cred = "rejected"
        /\ pc' = "except_api"
        /\ UNCHANGED <<items, item_count>>
     \/ /\ cred = "valid"
        /\ pc' = "except_api"
        /\ UNCHANGED <<items, item_count>>
     \/ /\ cred = "valid"
        /\ \E l \in Listings(DocKinds) :
             /\ items' = l
             /\ item_count' = Len(l)
        /\ pc' = "found"
  /\ UNCHANGED <<run_in, i, text_parts, slack_vars, output_file, exit_status>>

\* One pass of "for doc in docs": the header lines, then the preview try body.
gdocs_Document ==
  /\ script = "gdocs"
  /\ pc = "loop"
  /\ i <= Len(items)
  /\ LET doc == items[i] IN
     \/ /\ doc.kind \in {"ok", "empty"}
        /\ calls' = TRUE
        /\ text_parts' = Append(text_parts, [id |-> doc.id, preview |-> doc.kind = "ok"])
        /\ i' = i + 1
        /\ pc' = "loop"
     \/ /\ doc.kind = "get_error"
        /\ calls' = TRUE
        /\ pc' = "warn"
        /\ UNCHANGED <<text_parts, i>>
     \/ /\ doc.kind = "no_id"
        /\ pc' = "warn"
        /\ UNCHANGED <<text_parts, i, calls>>
  /\ UNCHANGED <<run_in, items, item_count, slack_vars, output_file, exit_status>>

\* except Exception of the preview: log(f"... {doc['id']} ..."), then the append.
gdocs_Warning ==
  /\ script = "gdocs"
  /\ pc = "warn"
  /\ IF items[i].kind = "no_id"
       THEN pc' = "except_api" /\ UNCHANGED <<text_parts, i>>
       ELSE /\ text_parts' = Append(text_parts, [id |-> items[i].id, preview |-> FALSE])
            /\ i' = i + 1
            /\ pc' = "loop"
  /\ UNCHANGED <<run_in, items, item_count, slack_vars, calls, output_file, exit_status>>

\* docs_text = '\n'.join(...); output_data; json.dump
gdocs_Write ==
  /\ script = "gdocs"
  /\ pc = "loop"
  /\ i > Len(items)
  /\ Dump(SuccessRecord(JoinBlocks(text_parts), "gdocs", item_count, {"search_query"}))
  /\ pc' = "saved"
  /\ UNCHANGED <<run_in, loop_vars, slack_vars, calls, exit_status>>

\* ------------------------------------------------------------------ jira
\* malformed: an attribute read by the formatting is missing (AttributeError)
IssueKinds == {"ok", "malformed"}

\* jira_base_url, team_filter, jql: everything between the credential test and log(jql)
jira_BuildJql ==
  /\ script = "jira"
  /\ pc = "getenv"
  /\ cred # "absent"
  /\ pc' = "jql"
  /\ UNCHANGED <<run_in, loop_vars, slack_vars, calls, output_file, exit_status>>

\* log(jql); try: JIRA(...); search_issues(...); issue_count = len(issues)
jira_Search ==
  /\ script = "jira"
  /\ pc = "jql"
  /\ calls' = TRUE
  /\ \/ /\ cred # "valid"
        /\ pc' = "except_api"
        /\ UNCHANGED <<items, item_count>>
     \/ /\ cred = "valid"
        /\ pc' = "except_api"
        /\ UNCHANGED <<items, item_count>>
     \/ /\ cred = "valid"
        /\ \E l \in Listings(IssueKinds) :
             /\ items' = l
             /\ item_count' = Len(l)
        /\ pc' = "found"
  /\ UNCHANGED <<run_in, i, text_parts, slack_vars, output_file, exit_status>>

\* One pass of "for issue in issues"
jira_Issue ==
  /\ script = "jira"
  /\ pc = "loop"
  /\ i <= Len(items)
  /\ IF items[i].kind = "ok"
       THEN /\ text_parts' = Append(text_parts, [id |-> items[i].id])
            /\ i' = i + 1
            /\ pc' = "loop"
       ELSE /\ pc' = "except_api"
            /\ UNCHANGED <<text_parts, i>>
  /\ UNCHANGED <<run_in, items, item_count, slack_vars, calls, output_file, exit_status>>

\* issues_text = '\n'.join(...); output_data; json.dump
jira_Write ==
  /\ script = "jira"
  /\ pc = "loop"
  /\ i > Len(items)
  /\ Dump(SuccessRecord(JoinBlocks(text_parts), "jira", item_count, {"project"}))
  /\ pc' = "saved"
  /\ UNCHANGED <<run_in, loop_vars, slack_vars, calls, exit_status>>

\* ----------------------------------------------------------------- slack
\* The upstream workspace.  conversations_info: C1 is readable, C2 raises SlackApiError.
ConversationsInfo(c) ==
  IF c = "C1" THEN [status |-> "ok", name |-> "general"]
              ELSE [status |-> "SlackApiError", name |-> ""]

\* users_info: three users with a profile, one the API does not know (SlackApiError),
\* one whose lookup fails below the API (connection error, not a SlackApiError).
UsersInfo(u) ==
  CASE u = "U1" -> [status |-> "ok", display_name |-> <<"A", "b">>, real_name |-> <<"B">>]
    [] u = "U2" -> [status |-> "ok", display_name |-> <<>>, real_name |-> <<"B", "a">>]
    [] u = "U5" -> [status |-> "ok", display_name |-> <<"B">>, real_name |-> <<"B", "B">>]
    [] u = "U3" -> [status |-> "SlackApiError", display_name |-> <<>>, real_name |-> <<>>]
    [] OTHER    -> [status |-> "error", display_name |-> <<>>, real_name |-> <<>>]

\* Messages a history call can return: user "" is a message without 'user',
\* ts_ok = FALSE a message whose 'ts' float() cannot parse.
SlackKinds ==
  { [subtype |-> "none", user |-> u, ts_ok |-> TRUE] : u \in {"", "U1", "U2", "U3", "U4", "U5"} }
  \cup { [subtype |-> "bot_message", user |-> "U1", ts_ok |-> TRUE],
         [subtype |-> "none", user |-> "U1", ts_ok |-> FALSE] }

\* A channel's history of at most n messages; the ts of a message is its position.
Histories(n) == UNION { [1..k -> SlackKinds] : k \in 0..n }

SkippedSubtypes == {"bot_message", "channel_join", "channel_leave"}

\* channels = [ch.strip() for ch in channel_ids.split(',') if ch.strip()]
NonEmptyId(c) == c # ""

Channels(ids) == SelectSeq(ids, NonEmptyId)

\* github_user_list = [u.strip().lower() for u in github_users.split(',') if u.strip()]
NonEmptyEntry(u) == u # <<>>

GithubUserList(users) ==
  LET kept == SelectSeq(users, NonEmptyEntry)
  IN  [k \in 1..Len(kept) |-> LowerStr(kept[k])]

\* Mutant: the result of the match is not used, every author passes.
UserMatch_Ignored(list, profile) == TRUE

\* The loop over gh_user: user_match
UserMatch(list, profile) ==
  \E k \in 1..Len(list) :
     \/ Contains(LowerStr(profile.display_name), list[k])
     \/ Contains(LowerStr(profile.real_name), list[k])

\* display_name or real_name
Author(profile) == IF profile.display_name # <<>> THEN profile.display_name ELSE profile.real_name

\* History variable: the messages of a history that the filter stages before the
\* author filter let through.
Resolvable(m) ==
  /\ m.subtype \notin SkippedSubtypes
  /\ m.user # ""
  /\ UsersInfo(m.user).status = "ok"

\* History variable: a message whose users_info call or whose float(msg['ts']) raises
\* an exception that is no SlackApiError.
Faulty(m) ==
  /\ m.subtype \notin SkippedSubtypes
  /\ m.user # ""
  /\ \/ UsersInfo(m.user).status = "error"
     \/ ~m.ts_ok

CountResolvable(h) == Cardinality({ k \in 1..Len(h) : Resolvable(h[k]) })

\* WebClient(token); client.auth_test()
slack_AuthTest ==
  /\ script = "slack"
  /\ pc = "getenv"
  /\ cred # "absent"
  /\ calls' = TRUE
  /\ \/ /\ cred # "valid"
        /\ pc' = "except_api"
     \/ /\ cred = "valid"
        /\ pc' \in {"authed", "except_api", "except_unexpected"}
  /\ UNCHANGED <<run_in, loop_vars, slack_vars, output_file, exit_status>>

\* log(authenticated); channels parsed; none: dump and return.  Else the date
\* range, github_user_list and all_messages = [].
slack_ParseChannels ==
  /\ script = "slack"
  /\ pc = "authed"
  /\ IF Channels(channel_ids) = <<>>
       THEN /\ Dump([raw_text |-> Literal("No Slack data - no channels configured"),
                     source |-> "slack", error |-> "none", count |-> 0,
                     channel_count |-> 0, date_range |-> NoRange,
                     keys |-> {"raw_text", "source", "channel_count"}])
            /\ Exit(0)
            /\ UNCHANGED <<text_parts, ch>>
       ELSE /\ text_parts' = <<>>
            /\ ch' = 1
            /\ pc' = "ch_begin"
            /\ UNCHANGED <<output_file, exit_status>>
  /\ UNCHANGED <<run_in, items, i, item_count, channel_name, eligible, fetched, failed_channels, other_fault, calls>>

\* log(fetching); conversations_info(channel_id)
slack_ChannelInfo ==
  /\ script = "slack"
  /\ pc = "ch_begin"
  /\ ch <= Len(Channels(channel_ids))
  /\ LET info == ConversationsInfo(Channels(channel_ids)[ch]) IN
       IF info.status = "ok"
         THEN channel_name' = info.name /\ pc' = "history"
         ELSE pc' = "info_warn" /\ UNCHANGED channel_name
  /\ UNCHANGED <<run_in, loop_vars, ch, eligible, fetched, failed_channels, other_fault, calls, output_file, exit_status>>

\* except SlackApiError of conversations_info: log, channel_name = channel_id
slack_InfoWarning ==
  /\ script = "slack"
  /\ pc = "info_warn"
  /\ channel_name' = Channels(channel_ids)[ch]
  /\ pc' = "history"
  /\ UNCHANGED <<run_in, loop_vars, ch, eligible, fetched, failed_channels, other_fault, calls, output_file, exit_status>>

\* conversations_history(...); messages = result.get('messages', [])
slack_History ==
  /\ script = "slack"
  /\ pc = "history"
  /\ \/ /\ \E h \in Histories(MaxItems - fetched) :
             /\ items' = h
             /\ eligible' = eligible + CountResolvable(h)
             /\ fetched' = fetched + Len(h)
             /\ other_fault' = (other_fault \/ \E k \in 1..Len(h) : Faulty(h[k]))
        /\ pc' = "found"
        /\ UNCHANGED failed_channels
     \/ /\ pc' = "ch_except"
        /\ failed_channels' = failed_channels + 1
        /\ UNCHANGED <<items, eligible, fetched, other_fault>>
     \/ /\ pc' = "except_unexpected"
        /\ other_fault' = TRUE
        /\ UNCHANGED <<items, eligible, fetched, failed_channels>>
  /\ UNCHANGED <<run_in, i, text_parts, item_count, ch, channel_name, calls, output_file, exit_status>>

\* log(found n messages); the message loop starts
slack_Found ==
  /\ script = "slack"
  /\ pc = "found"
  /\ i' = 1
  /\ pc' = "msg"
  /\ UNCHANGED <<run_in, items, text_parts, item_count, slack_vars, calls, output_file, exit_status>>

\* One pass of "for msg in messages": the subtype test and the test for 'user'.
slack_Message ==
  /\ script = "slack"
  /\ pc = "msg"
  /\ i <= Len(items)
  /\ IF items[i].subtype \in SkippedSubtypes \/ items[i].user = ""
       THEN i' = i + 1 /\ pc' = "msg"
       ELSE i' = i /\ pc' = "lookup"
  /\ UNCHANGED <<run_in, items, text_parts, item_count, slack_vars, calls, output_file, exit_status>>

\* The rest of the pass: users_info(user=user_id), then the author filter on the
\* profile, then the timestamp and the append.
slack_UserInfo ==
  /\ script = "slack"
  /\ pc = "lookup"
  /\ LET msg == items[i]
         user_info == UsersInfo(msg.user)
         github_user_list == GithubUserList(github_users)
         skip == /\ i' = i + 1
                 /\ pc' = "msg"
                 /\ UNCHANGED text_parts
         raise(to) == /\ pc' = to
                      /\ UNCHANGED <<i, text_parts>>
     IN
       CASE user_info.status = "SlackApiError" -> raise("msg_warn")
         [] user_info.status = "error" -> raise("except_unexpected")
         [] OTHER ->
              IF github_user_list # <<>> /\ ~UserMatch(github_user_list, user_info)
                THEN skip
                ELSE IF ~msg.ts_ok
                       THEN raise("except_unexpected")
                       ELSE /\ text_parts' = Append(text_parts,
                                 [channel |-> channel_name, author |-> Author(user_info), ts |-> i])
                            /\ i' = i + 1
                            /\ pc' = "msg"
  /\ UNCHANGED <<run_in, items, item_count, slack_vars, calls, output_file, exit_status>>

\* except SlackApiError of users_info: log, continue
slack_UserWarning ==
  /\ script = "slack"
  /\ pc = "msg_warn"
  /\ i' = i + 1
  /\ pc' = "msg"
  /\ UNCHANGED <<run_in, items, text_parts, item_count, slack_vars, calls, output_file, exit_status>>

\* The message loop of a channel is exhausted: next channel.
slack_ChannelDone ==
  /\ script = "slack"
  /\ pc = "msg"
  /\ i > Len(items)
  /\ ch' = ch + 1
  /\ items' = <<>>
  /\ i' = 1
  /\ pc' = "ch_begin"
  /\ UNCHANGED <<run_in, text_parts, item_count, channel_name, eligible, fetched, failed_channels, other_fault, calls, output_file, exit_status>>

\* Mutant: the channel's handler gives the error to the handler of the run.
slack_ChannelError_Fatal ==
  /\ script = "slack"
  /\ pc = "ch_except"
  /\ pc' = "except_api"
  /\ UNCHANGED <<run_in, loop_vars, slack_vars, calls, output_file, exit_status>>

\* except SlackApiError of the channel: log the error (and the hint), continue
slack_ChannelError ==
  /\ script = "slack"
  /\ pc = "ch_except"
  /\ ch' = ch + 1
  /\ pc' = "ch_begin"
  /\ UNCHANGED <<run_in, loop_vars, channel_name, eligible, fetched, failed_channels, other_fault, calls, output_file, exit_status>>

\* messages_text = '\n'.join(all_messages) if all_messages else "No relevant ..."
MessagesText(all_messages) ==
  IF all_messages # <<>> THEN JoinBlocks(all_messages)
                         ELSE Literal("No relevant Slack messages found")

\* output_data; json.dump
slack_Write ==
  /\ script = "slack"
  /\ pc = "ch_begin"
  /\ ch > Len(Channels(channel_ids))
  /\ Dump([SuccessRecord(MessagesText(text_parts), "slack", Len(text_parts), {"channel_count"})
             EXCEPT !.channel_count = Len(Channels(channel_ids))])
  /\ pc' = "saved"
  /\ UNCHANGED <<run_in, loop_vars, slack_vars, calls, exit_status>>

\* except Exception (slack)
ExceptUnexpected ==
  /\ pc = "except_unexpected"
  /\ Dump(ErrorRecord(Literal("No Slack data - unexpected error"), script, "unexpected_error", {"error_message"}))
  /\ Exit(1)
  /\ UNCHANGED <<run_in, loop_vars, slack_vars, calls>>

\* ------------------------------------------------------------ log faults
\* The positions whose next statement is mkdir / log(...).
LogSites ==
  {"start", "jql", "query", "found", "warn", "saved", "authed", "ch_begin", "info_warn",
   "msg_warn", "ch_except", "except_json", "except_api", "except_unexpected"}

AtLogSite ==
  \/ pc \in LogSites /\ ~(pc = "ch_begin" /\ ch > Len(Channels(channel_ids)))
  \/ pc = "getenv" /\ cred = "absent"

\* Positions inside the outer try block of main().
InsideTry ==
  pc \in {"query", "found", "warn", "saved", "authed", "ch_begin", "info_warn",
          "msg_warn", "ch_except"}

\* mkdir or log() raises (OSError, UnicodeEncodeError): inside the outer try the
\* exception reaches "except Exception", elsewhere it ends the process with a
\* traceback and status 1.
LogRaises ==
  /\ AtLogSite
  /\ IF InsideTry
       THEN pc' = ExceptException(script) /\ UNCHANGED exit_status
       ELSE Exit(1)
  /\ UNCHANGED <<run_in, loop_vars, slack_vars, calls, output_file>>

\* ------------------------------------------------------------------ Next
Next ==
  \/ SetupLogging
  \/ MissingCredentials
  \/ ExceptJSONDecodeError
  \/ ExceptApiFailure
  \/ ExceptUnexpected
  \/ LogFound
  \/ LogSaved
  \/ cog_ParseToken
  \/ cog_List
  \/ cog_Message
  \/ cog_Warning
  \/ cog_Write
  \/ gdocs_ParseCredentials
  \/ gdocs_List
  \/ gdocs_Document
  \/ gdocs_Warning
  \/ gdocs_Write
  \/ jira_BuildJql
  \/ jira_Search
  \/ jira_Issue
  \/ jira_Write
  \/ slack_AuthTest
  \/ slack_ParseChannels
  \/ slack_ChannelInfo
  \/ slack_InfoWarning
  \/ slack_History
  \/ slack_Found
  \/ slack_Message
  \/ slack_UserInfo
  \/ slack_UserWarning
  \/ slack_ChannelDone
  \/ slack_ChannelError
  \/ slack_Write

Spec == Init /\ [][Next]_vars

NextLogFault == Next \/ LogRaises

SpecLogFault == Init /\ [][NextLogFault]_vars

\* ---------------------------------------------------------------- claims
\* The content of output_path once something has been dumped.
Result == output_file[Len(output_file)]

HasError(r) == "error" \in r.keys

\* C1: whatever the outcome of the run, an output record has been written by the
\* time the process exits.  Stated over every exception a run can raise, hence
\* checked under SpecLogFault.
C1_AlwaysWritten == pc = "exited" => output_file # <<>>

\* C2: absent credential: exactly the record with error "missing_credentials" and the
\* script's fixed placeholder is written, no upstream call is made, and the status
\* is 0 for slack and 1 for cog_emails, gdocs and jira.
C2_MissingCredentials ==
  (pc = "exited" /\ cred = "absent") =>
     /\ Len(output_file) = 1
     /\ HasError(output_file[1])
     /\ output_file[1].error = "missing_credentials"
     /\ output_file[1].raw_text =
          [lit |-> CASE script = "cog_emails" -> "No CoG emails - missing credentials"
                     [] script = "gdocs"      -> "No Google Docs data - missing credentials"
                     [] script = "jira"       -> "No JIRA data - missing credentials"
                     [] script = "slack"      -> "No Slack data - credentials not configured",
           blocks |-> <<>>]
     /\ ~calls
     /\ exit_status = (IF script = "slack" THEN 0 ELSE 1)

\* C2 witness: the Chat run without a token has dumped its record and exited 0.
C2_Witness ==
  /\ pc = "exited"
  /\ cred = "absent"
  /\ script = "slack"
  /\ exit_status = 0
  /\ Len(output_file) = 1

\* C3: a credential that is present but malformed or unusable yields a record with
\* error "invalid_credentials" and status 1, in all four scripts.
C3_InvalidCredentials ==
  (pc = "exited" /\ cred \in {"garbled", "wrong_shape", "rejected"}) =>
     /\ output_file # <<>>
     /\ Result.error = "invalid_credentials"
     /\ exit_status = 1

\* C4: in every success record the count field equals the number of text blocks
\* joined into raw_text.
C4_CountIsBlocks ==
  \A k \in 1..Len(output_file) :
     (~HasError(output_file[k]) /\ CountKey(script) \in output_file[k].keys) =>
        output_file[k].count = Len(output_file[k].raw_text.blocks)

\* C5: a failure on one item is recovered inside the per-item loop: from the loop
\* and its warning handler the run never enters a top-level exception handler.
C5_ItemFailureRecovered ==
  [][(pc \in {"loop", "warn", "msg", "lookup", "msg_warn"})
       => (pc' \notin {"except_api", "except_unexpected", "except_json"})]_vars

\* Exactly one item of the listing has a failing enrichment fetch, every other
\* item is fetched and formatted.
C6_OneFetchFails ==
  IF script = "slack"
    THEN /\ \A k \in 1..Len(items) :
               /\ items[k].subtype = "none"
               /\ items[k].ts_ok
               /\ items[k].user \in {"U1", "U2", "U3", "U5"}
         /\ Cardinality({ k \in 1..Len(items) : items[k].user = "U3" }) = 1
    ELSE /\ \A k \in 1..Len(items) : items[k].kind \in {"ok", "empty", "get_error"}
         /\ Cardinality({ k \in 1..Len(items) : items[k].kind = "get_error" }) = 1

\* C6: with one failing enrichment fetch among N items, slack accumulates N-1 blocks
\* (first channel, no author filter), cog_emails and gdocs write N blocks and count N,
\* the failing item among them.
C6_Degradation ==
  /\ (script \in {"cog_emails", "gdocs"} /\ pc = "saved" /\ C6_OneFetchFails) =>
        /\ Len(Result.raw_text.blocks) = Len(items)
        /\ Result.count = Len(items)
        /\ \A k \in 1..Len(items) : Result.raw_text.blocks[k].id = items[k].id
  /\ (script = "slack" /\ pc = "msg" /\ i > Len(items) /\ ch = 1
        /\ GithubUserList(github_users) = <<>> /\ C6_OneFetchFails) =>
        Len(text_parts) = Len(items) - 1

\* C7: output_path is written at most once per run, whatever follows the write
\* (a failing log line included, hence checked under SpecLogFault).
C7_WrittenOnce == Len(output_file) <= 1

\* C8: raw_text is the empty string in no written record.
C8_RawTextNotEmpty ==
  \A k \in 1..Len(output_file) : ~IsEmptyText(output_file[k].raw_text)

\* C9: the status is 1 exactly when the written record has an error field, except
\* for slack's missing_credentials (0); every credential failure but that one is 1.
C9_ExitStatus ==
  pc = "exited" =>
     /\ output_file # <<>>
     /\ exit_status \in {0, 1}
     /\ (exit_status = 1) <=>
          (HasError(Result) /\ ~(script = "slack" /\ Result.error = "missing_credentials"))
     /\ HasError(Result) <=> Result.error # "none"
     /\ cred = "absent" => exit_status = (IF script = "slack" THEN 0 ELSE 1)
     /\ cred \in {"garbled", "wrong_shape", "rejected"} => exit_status = 1

\* C9 witness: a run with a valid credential whose upstream call failed has written
\* api_failure and exited 1.
C9_Witness ==
  /\ pc = "exited"
  /\ cred = "valid"
  /\ exit_status = 1
  /\ output_file # <<>>
  /\ Result.error = "api_failure"

\* An allow-list is given: some entry of the argument is not empty.
C10_ListGiven == \E k \in 1..Len(github_users) : github_users[k] # <<>>

\* The profile's display name or real name contains an entry of the argument,
\* case ignored.
C10_Allowed(profile) ==
  \E k \in 1..Len(github_users) :
     /\ github_users[k] # <<>>
     /\ \/ Contains(LowerStr(profile.display_name), LowerStr(github_users[k]))
        \/ Contains(LowerStr(profile.real_name), LowerStr(github_users[k]))

\* C10: with an allow-list, a message is accumulated only if its author's display or
\* real name contains an entry, case ignored; without one, the success record holds
\* every fetched message that is no bot/system message and whose author resolves.
C10_AuthorFilter ==
  /\ [][(script = "slack" /\ Len(text_parts') > Len(text_parts) /\ C10_ListGiven)
          => C10_Allowed(UsersInfo(items[i].user))]_vars
  /\ []((script = "slack" /\ pc = "saved" /\ ~C10_ListGiven) =>
          /\ Len(text_parts) = eligible
          /\ Result.count = eligible
          /\ (eligible > 0 => Result.raw_text = [lit |-> "", blocks |-> text_parts]))

\* C10 witness: a Chat run with an allow-list has written a record that holds some
\* of the resolvable messages and not all of them.
C10_Witness ==
  /\ script = "slack"
  /\ pc = "saved"
  /\ C10_ListGiven
  /\ text_parts # <<>>
  /\ eligible > Len(text_parts)

\* C11: a channel whose history call fails with SlackApiError adds no block and
\* removes none, the run goes on with the next channel, and when nothing else fails
\* the run writes one success record with the blocks of the other channels (all
\* their resolvable messages when no allow-list is given) and exits 0.
C11_ChannelFailureIsolated ==
  /\ [][(pc = "history" /\ pc' = "ch_except")
          => (text_parts' = text_parts /\ fetched' = fetched /\ output_file' = output_file)]_vars
  /\ [][(pc = "ch_except")
          => (pc' = "ch_begin" /\ ch' = ch + 1 /\ text_parts' = text_parts
              /\ output_file' = output_file)]_vars
  /\ []((script = "slack" /\ pc = "exited" /\ failed_channels >= 1 /\ ~other_fault) =>
          /\ Len(output_file) = 1
          /\ ~HasError(Result)
          /\ exit_status = 0
          /\ Result.raw_text =
               (IF text_parts = <<>>
                  THEN [lit |-> "No relevant Slack messages found", blocks |-> <<>>]
                  ELSE [lit |-> "", blocks |-> text_parts])
          /\ Result.count = Len(text_parts)
          /\ (~C10_ListGiven => Len(text_parts) = eligible))

\* C11 witness: a run over two channels, one of them failed with SlackApiError, has
\* written the messages of the other one and exited 0.
C11_Witness ==
  /\ script = "slack"
  /\ pc = "exited"
  /\ Len(Channels(channel_ids)) = 2
  /\ failed_channels = 1
  /\ ~other_fault
  /\ text_parts # <<>>
  /\ output_file # <<>>
  /\ Result.raw_text.blocks = text_parts
  /\ exit_status = 0

\* C12: the content written does not depend on when the run is executed: every
\* record that carries a date range carries the one a run of the same request
\* started at any other instant would write.
C12_TimeIndependent ==
  \A k \in 1..Len(output_file) :
     "date_range" \in output_file[k].keys =>
        \A t \in Clock : output_file[k].date_range = DateRange(script, date_args, t)

\* C13: the author filter decides before the profile lookup: under an allow-list a
\* message whose profile has been looked up is not rejected by the filter afterwards,
\* it is accumulated; and every message ends accumulated or skipped, the loop going
\* on with the next message or the next channel.
C13_FilterBeforeLookup ==
  /\ [][(pc = "lookup" /\ pc' = "msg" /\ C10_ListGiven)
          => (Len(text_parts') > Len(text_parts))]_vars
  /\ [][(pc \in {"msg", "lookup", "msg_warn"})
          => (pc' \in {"msg", "lookup", "msg_warn", "ch_begin"})]_vars

\* The position of an item of the listing, by its id (ids are distinct).
C14_Pos(id) == CHOOSE k \in 1..Len(items) : items[k].id = id

\* The name the blocks of a channel carry: its name, or its id when
\* conversations_info fails.
C14_BlockName(c) ==
  IF ConversationsInfo(c).status = "ok" THEN ConversationsInfo(c).name ELSE c

\* The position on the command line of the channel whose blocks carry the name.
C14_ChannelPos(name) ==
  CHOOSE k \in 1..Len(Channels(channel_ids)) : C14_BlockName(Channels(channel_ids)[k]) = name

C14_DistinctChannels ==
  \A a, b \in 1..Len(Channels(channel_ids)) :
     a # b => Channels(channel_ids)[a] # Channels(channel_ids)[b]

\* The blocks accumulated so far are items of the listing, in the listing's order.
C14_InListingOrder ==
  IF script = "slack"
    THEN (pc \in {"msg", "lookup", "msg_warn", "ch_begin", "ch_except", "history", "info_warn",
                  "found", "saved"} /\ C14_DistinctChannels) =>
           /\ \A a \in 1..Len(text_parts) :
                \E k \in 1..Len(Channels(channel_ids)) :
                   C14_BlockName(Channels(channel_ids)[k]) = text_parts[a].channel
           /\ \A a, b \in 1..Len(text_parts) :
                a < b =>
                  \/ C14_ChannelPos(text_parts[a].channel) < C14_ChannelPos(text_parts[b].channel)
                  \/ /\ text_parts[a].channel = text_parts[b].channel
                     /\ text_parts[a].ts < text_parts[b].ts
    ELSE /\ \A a \in 1..Len(text_parts) :
              \E k \in 1..Len(items) : items[k].id = text_parts[a].id
         /\ \A a, b \in 1..Len(text_parts) :
              a < b => C14_Pos(text_parts[a].id) < C14_Pos(text_parts[b].id)

\* C14: the blocks of raw_text are in the order of the listing: a block is only ever
\* added at the end, for the item the loop is at, the blocks are a subsequence of the
\* listing (for slack: channels in the order given, within a channel the order of
\* the history), and the record written holds them in that order.
C14_ListingOrder ==
  /\ [][(text_parts' # text_parts) =>
          \/ text_parts' = <<>>
          \/ /\ Len(text_parts') = Len(text_parts) + 1
             /\ SubSeq(text_parts', 1, Len(text_parts)) = text_parts
             /\ i <= Len(items)
             /\ IF script = "slack"
                  THEN /\ text_parts'[Len(text_parts')].ts = i
                       /\ text_parts'[Len(text_parts')].channel =
                            C14_BlockName(Channels(channel_ids)[ch])
                  ELSE text_parts'[Len(text_parts')].id = items[i].id]_vars
  /\ [][(script = "slack" /\ pc \in {"msg", "lookup", "msg_warn"})
          => (ch' >= ch /\ (pc' \in {"msg", "lookup", "msg_warn"} => i' >= i))]_vars
  /\ [](C14_InListingOrder)
  /\ []((pc = "saved") => (Result.raw_text.blocks = text_parts))

\* C14 witness: a record has been written with two blocks whose listing order is not
\* the order of their ids.
C14_Witness ==
  /\ script \in {"cog_emails", "gdocs", "jira"}
  /\ pc = "saved"
  /\ Len(items) = 2
  /\ items[1].id > items[2].id
  /\ Len(Result.raw_text.blocks) = 2
  /\ Result.raw_text.blocks[1].id = items[1].id
  /\ Result.raw_text.blocks[2].id = items[2].id

====
